---- MODULE Spec2Model ----
(***************************************************************************)
(* Model of src/app.py: the /transcribe request handler of the Flask app,  *)
(* its lazily loaded pyannote pipeline (the module global                  *)
(* diarization_pipeline), the temporary upload file, and the loop that     *)
(* aligns Whisper's words with the diarization tracks.                     *)
(*                                                                         *)
(* Representation.                                                         *)
(*  - A Python str is a sequence of one-character strings, so that strip,  *)
(*    join and endswith are computed rather than assumed.  Word texts and  *)
(*    speaker labels are kept as TLA+ strings and spelled out by Chars     *)
(*    where the code formats them into the transcript.                     *)
(*  - Times are tenths of a second (0.5 s is 5).                           *)
(*  - Requests are numbered 1, 2, ... in the order in which they arrive.   *)
(*  - None is 0 for the pipeline handle (a pipeline object is named by the *)
(*    number of the request whose from_pretrained call returned it), <<>>  *)
(*    for audio_path, and the string None for a speaker.                   *)
(*  - The file system is a function from the temporary paths to the        *)
(*    number of the request whose upload the file holds (0: no file).      *)
(*  - Each request runs in a thread of its own (app.run serves threaded);  *)
(*    a step of a thread is one access to the shared global or to the file *)
(*    system together with the thread-local code that follows it.          *)
(***************************************************************************)
EXTENDS Integers, Sequences, FiniteSets, TLC

\* ------------------------------------------------------------------ bounds

\* Requests the server accepts before it stops taking new ones.
MaxRequests == 3
\* Words per Whisper result and tracks per pyannote result.
MaxWords == 2
MaxIntervals == 3

\* Two handler threads: the server starts a thread per request, and the
\* properties about overlapping requests are about pairs of them.
Threads == {1, 2}

\* ----------------------------------------------------------------- strings

None == "None"

Whitespace == {" ", "\n", "\t", "\r"}

Chars(s) ==
    CASE s = "SPEAKER_00" -> <<"S", "P", "E", "A", "K", "E", "R", "_", "0", "0">>
      [] s = "SPEAKER_01" -> <<"S", "P", "E", "A", "K", "E", "R", "_", "0", "1">>
      [] s = None -> <<"N", "o", "n", "e">>
      [] s = ": " -> <<":", " ">>
      [] s = "" -> <<>>
      [] OTHER -> <<s>>

RECURSIVE LStrip(_)
LStrip(s) ==
    IF s # <<>> /\ Head(s) \in Whitespace THEN LStrip(Tail(s)) ELSE s

RECURSIVE RStrip(_)
RStrip(s) ==
    IF s # <<>> /\ s[Len(s)] \in Whitespace
    THEN RStrip(SubSeq(s, 1, Len(s) - 1))
    ELSE s

\* str.strip()
Strip(s) == RStrip(LStrip(s))

\* sep.join(parts), parts a sequence of strings
RECURSIVE Join(_, _)
Join(sep, parts) ==
    IF parts = <<>> THEN <<>>
    ELSE IF Len(parts) = 1 THEN parts[1]
    ELSE parts[1] \o sep \o Join(sep, Tail(parts))

\* str.endswith(c), c one character
EndsWith(s, c) == s # <<>> /\ s[Len(s)] = c

\* ------------------------------------------------------------------ inputs

\* The instants of the two diarization scenarios: 0.0, 0.5, 0.6 and 1.0 s.
Instants == {0, 5, 6, 10}

\* What Whisper may return for a word: any span of positive length.
WordSpans == {sp \in Instants \X Instants : sp[1] < sp[2]}

\* What pyannote may return for a track: the spans of the scenarios
\* ([0,0.5], [0.6,1.0], [0,1.0]) and the gap between them ([0.5,0.6]).
TrackSpans == {<<0, 5>>, <<6, 10>>, <<0, 10>>, <<5, 6>>}

Labels == {"SPEAKER_00", "SPEAKER_01"}

\* The i-th word of a timeline reads as the i-th letter and has confidence
\* 0.9, 0.8, ... (in tenths): the code only copies text and probability.
Letters == <<"a", "b", "c", "d">>

MkWord(i, sp) ==
    [text |-> Letters[i], start |-> sp[1], end |-> sp[2], probability |-> 10 - i]

MkTrack(sp, label) == [start |-> sp[1], end |-> sp[2], label |-> label]

\* Word timelines of length n, ordered by start time.
WordTimelinesOfLen(n) ==
    {[i \in 1..n |-> MkWord(i, f[i])] :
        f \in {g \in [1..n -> WordSpans] :
                 \A i \in 1..(n - 1) : g[i][1] <= g[i + 1][1]}}

WordTimelines == UNION {WordTimelinesOfLen(n) : n \in 0..MaxWords}

\* Speaker timelines of length n, ordered by start time.
SpeakerTimelinesOfLen(n) ==
    {[i \in 1..n |-> MkTrack(f[i][1], f[i][2])] :
        f \in {g \in [1..n -> TrackSpans \X Labels] :
                 \A i \in 1..(n - 1) : g[i][1][1] <= g[i + 1][1][1]}}

SpeakerTimelines == UNION {SpeakerTimelinesOfLen(n) : n \in 0..MaxIntervals}

\* The word timeline and the two speaker timelines of the scenarios.
ScenarioWords == <<MkWord(1, <<0, 5>>), MkWord(2, <<6, 10>>)>>
ScenarioOneSpeaker == <<MkTrack(<<0, 10>>, "SPEAKER_00")>>
ScenarioTwoSpeakers ==
    <<MkTrack(<<0, 5>>, "SPEAKER_00"), MkTrack(<<6, 10>>, "SPEAKER_01")>>

Filenames == {"a.wav", "b.wav"}

\* ---------------------------------------------------------------- aligner

\* A variant of line 92 that drops the separator: "".join(word["text"] ...).
RECURSIVE ConcatWithoutSpace(_)
ConcatWithoutSpace(words) ==
    IF words = <<>> THEN <<>>
    ELSE Chars(words[1].text) \o ConcatWithoutSpace(Tail(words))

\* line 92: "".join(word["text"] + " " for word in all_whisper_words).strip()
RECURSIVE ConcatWithSpace(_)
ConcatWithSpace(words) ==
    IF words = <<>> THEN <<>>
    ELSE Chars(words[1].text) \o <<" ">> \o ConcatWithSpace(Tail(words))

FullText(words) == Strip(ConcatWithSpace(words))

\* lines 123-128 and 138-143: the dict appended to word_chunks_for_frontend
Chunk(word, speaker) ==
    [text |-> word.text, timestamp |-> <<word.start, word.end>>,
     score |-> word.probability, speaker |-> speaker]

\* lines 137-143
PlainChunks(words) == [i \in 1..Len(words) |-> Chunk(words[i], None)]

\* A variant of line 121 that tests where the word starts only.
Contained_StartOnly(word, seg) ==
    word.start >= seg.start /\ word.start <= seg.end

\* line 121
Contained(word, seg) == word.start >= seg.start /\ word.end <= seg.end

\* lines 101-102, 94-95: the state of the loop before the first track.
\* current_speaker_words holds references to the dicts of all_whisper_words:
\* an entry is the index w of the word; c (the position of the chunk that
\* was appended with it) and the fields emitted and segments are history,
\* recorded for the properties below and read by no operator of the model.
AlignStart ==
    [current_speaker |-> None, current_speaker_words |-> <<>>,
     word_chunks |-> <<>>, final_transcript_text |-> <<>>,
     emitted |-> <<>>, segments |-> <<>>]

\* lines 104-112
AddSpeakerSegment(st, words) ==
    IF st.current_speaker_words # <<>>
    THEN LET buf == st.current_speaker_words
             segment_text ==
                 Strip(Join(<<" ">>, [k \in 1..Len(buf) |-> Chars(words[buf[k].w].text)]))
             text == st.final_transcript_text
             sep == IF text # <<>> /\ ~EndsWith(text, "\n") THEN <<"\n">> ELSE <<>>
         IN  IF segment_text # <<>>
             THEN [st EXCEPT
                     !.final_transcript_text =
                         text \o sep \o Chars(st.current_speaker) \o Chars(": ")
                              \o segment_text \o <<"\n">>,
                     !.segments =
                         Append(@, [speaker |-> st.current_speaker,
                                    members |-> [k \in 1..Len(buf) |-> buf[k].c]]),
                     !.current_speaker_words = <<>>]
             ELSE [st EXCEPT !.current_speaker_words = <<>>]
    ELSE st

\* lines 120-130: the scan of all_whisper_words for one track, from word i on
RECURSIVE ScanWords(_, _, _, _, _)
ScanWords(st, words, seg, t, i) ==
    IF i > Len(words) THEN st
    ELSE IF Contained(words[i], seg)
    THEN ScanWords(
            [st EXCEPT
               !.current_speaker_words =
                   Append(@, [w |-> i, c |-> Len(st.word_chunks) + 1]),
               !.word_chunks = Append(@, Chunk(words[i], seg.label)),
               !.emitted = Append(@, [word_idx |-> i, track |-> t])],
            words, seg, t, i + 1)
    ELSE ScanWords(st, words, seg, t, i + 1)

\* A variant of lines 115-116 that flushes before every track but the first.
ProcessTrack_FlushEveryTrack(st, words, seg, t) ==
    LET flushed ==
            IF st.current_speaker # None
            THEN AddSpeakerSegment(st, words)
            ELSE st
    IN  ScanWords([flushed EXCEPT !.current_speaker = seg.label], words, seg, t, 1)

\* lines 115-130: one iteration of the loop over itertracks
ProcessTrack(st, words, seg, t) ==
    LET flushed ==
            IF st.current_speaker # None /\ seg.label # st.current_speaker
            THEN AddSpeakerSegment(st, words)
            ELSE st
    IN  ScanWords([flushed EXCEPT !.current_speaker = seg.label], words, seg, t, 1)

\* lines 114-130: the loop over the first n tracks
RECURSIVE AlignLoop(_, _, _)
AlignLoop(words, tracks, n) ==
    IF n = 0 THEN AlignStart
    ELSE ProcessTrack(AlignLoop(words, tracks, n - 1), words, tracks[n], n)

\* lines 101-132
Align(words, tracks) == AddSpeakerSegment(AlignLoop(words, tracks, Len(tracks)), words)

\* A variant of line 148 without the strip.
ResponseText_Unstripped(final_transcript_text) == final_transcript_text

\* line 148: final_transcript_text.strip()
ResponseText(final_transcript_text) == Strip(final_transcript_text)

\* ------------------------------------------------------------------- state

VARIABLES
    diarization_pipeline,  \* line 23: the global handle; 0 is None
    fs,                    \* temporary path -> request whose upload it holds, 0: absent
    hf_token,              \* HUGGING_FACE_HUB_TOKEN is set in the environment
    device,                \* line 19
    served,                \* number of requests that have arrived
    pc,                    \* where each thread stands
    id,                    \* the number of the request the thread handles, 0: none
    req,                   \* the request: has_file, filename, diarize
    audio_path,            \* line 45/50; <<>> is None
    all_whisper_words,     \* lines 82-90
    diarization_results,   \* line 99
    aligned,               \* the locals of lines 94-132 when the loop has run
    resp,                  \* the response: status (0: none yet), text, chunks
    hist,                  \* history of the thread's request, read by no action
    loaded_ok,             \* history: requests that reached line 69
    failed_handles         \* history: pipelines whose move to the GPU raised

vars ==
    <<diarization_pipeline, fs, hf_token, device, served, pc, id, req,
      audio_path, all_whisper_words, diarization_results, aligned, resp, hist,
      loaded_ok, failed_handles>>

\* The locals of one call of transcribe_audio.
locals == <<req, audio_path, all_whisper_words, diarization_results, aligned>>

\* line 50: os.path.join(os.getcwd(), f"temp_{os.getpid()}_{audio_filename}");
\* the working directory and the pid are the same for every request of the
\* process, so the path is a function of the filename alone.
AudioPath(filename) == <<"temp_pid_", filename>>

Paths == {AudioPath(f) : f \in Filenames}

NoRequest == [has_file |-> FALSE, filename |-> "", diarize |-> FALSE]

NoResponse == [status |-> 0, text |-> <<>>, chunks |-> <<>>]

\* lines 35, 39, 155: jsonify({'error': ...}), status
ErrorResponse(status) == [status |-> status, text |-> <<>>, chunks |-> <<>>]

\* lines 147-151
OkResponse(text, chunks) ==
    [status |-> 200, text |-> ResponseText(text), chunks |-> chunks]

\* saved: file.save created the file; load_failed: the request ran lines
\* 70-72; used: the pipeline the request called at line 99; diarized: the
\* response was built by lines 98-134.
NoHistory ==
    [saved |-> FALSE, load_failed |-> FALSE, used |-> 0, diarized |-> FALSE]

Init ==
    /\ diarization_pipeline = 0
    /\ fs = [p \in Paths |-> 0]
    /\ hf_token \in BOOLEAN
    /\ device \in {"cuda", "cpu"}
    /\ served = 0
    /\ pc = [t \in Threads |-> "idle"]
    /\ id = [t \in Threads |-> 0]
    /\ req = [t \in Threads |-> NoRequest]
    /\ audio_path = [t \in Threads |-> <<>>]
    /\ all_whisper_words = [t \in Threads |-> <<>>]
    /\ diarization_results = [t \in Threads |-> <<>>]
    /\ aligned = [t \in Threads |-> AlignStart]
    /\ resp = [t \in Threads |-> NoResponse]
    /\ hist = [t \in Threads |-> NoHistory]
    /\ loaded_ok = {}
    /\ failed_handles = {}

\* ----------------------------------------------------------------- actions

\* The forms a request takes: no file part, a file part with an empty
\* filename, or a file part with a filename and the diarize flag (the flag
\* is read only after the two checks of lines 34-39).
RequestForms(names) ==
    {[has_file |-> FALSE, filename |-> "", diarize |-> FALSE],
     [has_file |-> TRUE, filename |-> "", diarize |-> FALSE]}
    \cup {[has_file |-> TRUE, filename |-> f, diarize |-> d] :
             f \in names, d \in BOOLEAN}

\* lines 153-155: an exception raised inside the try block
Raise(t) ==
    /\ resp' = [resp EXCEPT ![t] = ErrorResponse(500)]
    /\ pc' = [pc EXCEPT ![t] = "finally"]

\* lines 33-45: a request arrives, gets a thread that is free (the lowest
\* one: which thread it is makes no difference) and is validated
Arrive(t, names) ==
    /\ served < MaxRequests
    /\ pc[t] \in {"idle", "done"}
    /\ \A u \in Threads : u < t => pc[u] \notin {"idle", "done"}
    /\ served' = served + 1
    /\ id' = [id EXCEPT ![t] = served + 1]
    /\ hist' = [hist EXCEPT ![t] = NoHistory]
    /\ \E form \in RequestForms(names) :
        IF ~form.has_file \/ form.filename = ""
        THEN /\ resp' = [resp EXCEPT ![t] = ErrorResponse(400)]
             /\ pc' = [pc EXCEPT ![t] = "done"]
             /\ req' = req
        ELSE /\ resp' = [resp EXCEPT ![t] = NoResponse]
             /\ pc' = [pc EXCEPT ![t] = "save"]
             /\ req' = [req EXCEPT ![t] = form]
    /\ UNCHANGED <<diarization_pipeline, fs, hf_token, device, audio_path,
                   all_whisper_words, diarization_results, aligned,
                   loaded_ok, failed_handles>>

\* lines 49-52: file.save either writes the upload or raises, with or
\* without the (partly written) file left behind
Save(t) ==
    /\ pc[t] = "save"
    /\ LET path == AudioPath(req[t].filename)
       IN  /\ audio_path' = [audio_path EXCEPT ![t] = path]
           /\ \E outcome \in {"saved", "raised_with_file", "raised_without_file"} :
                IF outcome = "saved"
                THEN /\ fs' = [fs EXCEPT ![path] = id[t]]
                     /\ hist' = [hist EXCEPT ![t].saved = TRUE]
                     /\ pc' = [pc EXCEPT ![t] = "check_handle"]
                     /\ resp' = resp
                ELSE /\ fs' = IF outcome = "raised_with_file"
                              THEN [fs EXCEPT ![path] = id[t]] ELSE fs
                     /\ hist' = [hist EXCEPT ![t].saved = (outcome = "raised_with_file")]
                     /\ Raise(t)
    /\ UNCHANGED <<diarization_pipeline, hf_token, device, served, id, req,
                   all_whisper_words, diarization_results, aligned,
                   loaded_ok, failed_handles>>

\* lines 56-59
CheckHandle(t) ==
    /\ pc[t] = "check_handle"
    /\ IF req[t].diarize /\ diarization_pipeline = 0
       THEN IF ~hf_token
            THEN Raise(t)
            ELSE /\ pc' = [pc EXCEPT ![t] = "from_pretrained"]
                 /\ resp' = resp
       ELSE /\ pc' = [pc EXCEPT ![t] = "transcribe"]
            /\ resp' = resp
    /\ UNCHANGED <<diarization_pipeline, fs, hf_token, device, served, id,
                   hist, loaded_ok, failed_handles>>
    /\ UNCHANGED locals

\* lines 70-72, then 153-155: the handler of a failed load resets the global
\* and raises again.  The exception is raised inside the library call, which
\* no other thread observes, so raising and resetting are one step.
LoadFailed(t) ==
    /\ diarization_pipeline' = 0
    /\ hist' = [hist EXCEPT ![t].load_failed = TRUE]
    /\ Raise(t)

\* lines 63-67 and 69: Pipeline.from_pretrained returns a pipeline, which is
\* stored in the global before the device is looked at, or raises
FromPretrained(t) ==
    /\ pc[t] = "from_pretrained"
    /\ \E outcome \in {"pipeline", "raised"} :
        IF outcome = "raised"
        THEN /\ LoadFailed(t)
             /\ loaded_ok' = loaded_ok
        ELSE /\ diarization_pipeline' = id[t]
             /\ pc' = [pc EXCEPT ![t] = IF device = "cuda" THEN "to_device"
                                                            ELSE "transcribe"]
             /\ loaded_ok' = IF device = "cuda" THEN loaded_ok
                                                ELSE loaded_ok \cup {id[t]}
             /\ UNCHANGED <<resp, hist>>
    /\ UNCHANGED <<fs, hf_token, device, served, id, failed_handles>>
    /\ UNCHANGED locals

\* lines 68-69: diarization_pipeline.to(...) reads the global again; on None
\* it raises AttributeError, otherwise the move succeeds or raises
ToDevice(t) ==
    /\ pc[t] = "to_device"
    /\ IF diarization_pipeline = 0
       THEN /\ LoadFailed(t)
            /\ UNCHANGED <<loaded_ok, failed_handles>>
       ELSE \E outcome \in {"moved", "raised"} :
              IF outcome = "moved"
              THEN /\ pc' = [pc EXCEPT ![t] = "transcribe"]
                   /\ loaded_ok' = loaded_ok \cup {id[t]}
                   /\ UNCHANGED <<diarization_pipeline, resp, hist, failed_handles>>
              ELSE /\ LoadFailed(t)
                   /\ loaded_ok' = loaded_ok
                   /\ failed_handles' = failed_handles \cup {diarization_pipeline}
    /\ UNCHANGED <<fs, hf_token, device, served, id>>
    /\ UNCHANGED locals

\* lines 75-92: Whisper opens audio_path; a missing or undecodable file raises
Transcribe(t, timelines) ==
    /\ pc[t] = "transcribe"
    /\ IF fs[audio_path[t]] = 0
       THEN /\ Raise(t)
            /\ UNCHANGED all_whisper_words
       ELSE \E outcome \in {"words", "raised"} :
              IF outcome = "raised"
              THEN /\ Raise(t)
                   /\ UNCHANGED all_whisper_words
              ELSE \E words \in timelines :
                     /\ all_whisper_words' = [all_whisper_words EXCEPT ![t] = words]
                     /\ pc' = [pc EXCEPT ![t] = "check_diar"]
                     /\ resp' = resp
    /\ UNCHANGED <<diarization_pipeline, fs, hf_token, device, served, id, req,
                   audio_path, diarization_results, aligned, hist, loaded_ok,
                   failed_handles>>

\* line 97, and on the else branch lines 136-151
CheckDiar(t) ==
    /\ pc[t] = "check_diar"
    /\ IF req[t].diarize /\ diarization_pipeline # 0
       THEN /\ pc' = [pc EXCEPT ![t] = "call_diar"]
            /\ resp' = resp
       ELSE /\ pc' = [pc EXCEPT ![t] = "finally"]
            /\ resp' = [resp EXCEPT ![t] =
                          OkResponse(FullText(all_whisper_words[t]),
                                     PlainChunks(all_whisper_words[t]))]
    /\ UNCHANGED <<diarization_pipeline, fs, hf_token, device, served, id,
                   hist, loaded_ok, failed_handles>>
    /\ UNCHANGED locals

\* lines 99-151: the global is read again and called (None is not callable);
\* pyannote opens audio_path and returns the tracks or raises
CallDiar(t, timelines) ==
    /\ pc[t] = "call_diar"
    /\ IF diarization_pipeline = 0 \/ fs[audio_path[t]] = 0
       THEN /\ Raise(t)
            /\ hist' = [hist EXCEPT ![t].used = diarization_pipeline]
            /\ UNCHANGED <<diarization_results, aligned>>
       ELSE \E outcome \in {"tracks", "raised"} :
              IF outcome = "raised"
              THEN /\ Raise(t)
                   /\ hist' = [hist EXCEPT ![t].used = diarization_pipeline]
                   /\ UNCHANGED <<diarization_results, aligned>>
              ELSE \E tracks \in timelines :
                     LET st == Align(all_whisper_words[t], tracks)
                     IN  /\ diarization_results' =
                                [diarization_results EXCEPT ![t] = tracks]
                         /\ aligned' = [aligned EXCEPT ![t] = st]
                         /\ resp' = [resp EXCEPT ![t] =
                                       OkResponse(st.final_transcript_text,
                                                  st.word_chunks)]
                         /\ hist' = [hist EXCEPT ![t].used = diarization_pipeline,
                                                 ![t].diarized = TRUE]
                         /\ pc' = [pc EXCEPT ![t] = "finally"]
    /\ UNCHANGED <<diarization_pipeline, fs, hf_token, device, served, id, req,
                   audio_path, all_whisper_words, loaded_ok, failed_handles>>

\* The view function returns: the response goes to the client and the
\* locals of the call are gone.
Return(t) ==
    /\ pc' = [pc EXCEPT ![t] = "done"]
    /\ req' = [req EXCEPT ![t] = NoRequest]
    /\ audio_path' = [audio_path EXCEPT ![t] = <<>>]
    /\ all_whisper_words' = [all_whisper_words EXCEPT ![t] = <<>>]
    /\ diarization_results' = [diarization_results EXCEPT ![t] = <<>>]
    /\ aligned' = [aligned EXCEPT ![t] = AlignStart]

\* A variant of lines 156-159 that returns without removing the file.
FinallyExists_NoRemove(t) ==
    /\ pc[t] = "finally"
    /\ Return(t)
    /\ UNCHANGED <<diarization_pipeline, fs, hf_token, device, served, id,
                   resp, hist, loaded_ok, failed_handles>>

\* line 157
FinallyExists(t) ==
    /\ pc[t] = "finally"
    /\ IF audio_path[t] # <<>> /\ fs[audio_path[t]] # 0
       THEN /\ pc' = [pc EXCEPT ![t] = "remove"]
            /\ UNCHANGED locals
       ELSE Return(t)
    /\ UNCHANGED <<diarization_pipeline, fs, hf_token, device, served, id,
                   resp, hist, loaded_ok, failed_handles>>

\* line 158: os.remove raises FileNotFoundError when the file has gone since
\* line 157; the exception leaves the view and Flask answers 500
FinallyRemove(t) ==
    /\ pc[t] = "remove"
    /\ IF fs[audio_path[t]] # 0
       THEN /\ fs' = [fs EXCEPT ![audio_path[t]] = 0]
            /\ resp' = resp
       ELSE /\ fs' = fs
            /\ resp' = [resp EXCEPT ![t] = ErrorResponse(500)]
    /\ Return(t)
    /\ UNCHANGED <<diarization_pipeline, hf_token, device, served, id, hist,
                   loaded_ok, failed_handles>>

\* The server: requests overlap, and the models answer with the timelines
\* of the scenarios.
Next ==
    \E t \in Threads :
        \/ Arrive(t, Filenames)
        \/ Save(t)
        \/ CheckHandle(t)
        \/ FromPretrained(t)
        \/ ToDevice(t)
        \/ Transcribe(t, {ScenarioWords})
        \/ CheckDiar(t)
        \/ CallDiar(t, {ScenarioOneSpeaker, ScenarioTwoSpeakers})
        \/ FinallyExists(t)
        \/ FinallyRemove(t)

Spec == Init /\ [][Next]_vars

\* One request on a GPU host with the token set, the models answering with
\* any word timeline and any speaker timeline within the bounds.
InitAlign == Init /\ hf_token /\ device = "cuda"

NextAlign ==
    \/ served = 0 /\ Arrive(1, {"a.wav"})
    \/ Save(1)
    \/ CheckHandle(1)
    \/ FromPretrained(1)
    \/ ToDevice(1)
    \/ Transcribe(1, WordTimelines)
    \/ CheckDiar(1)
    \/ CallDiar(1, SpeakerTimelines)
    \/ FinallyExists(1)
    \/ FinallyRemove(1)

SpecAlign == InitAlign /\ [][NextAlign]_vars

\* The server when no two requests overlap: a request arrives only when no
\* other one is being handled.
NextSequential ==
    \E t \in Threads :
        \/ (\A u \in Threads : pc[u] \in {"idle", "done"}) /\ Arrive(t, Filenames)
        \/ Save(t)
        \/ CheckHandle(t)
        \/ FromPretrained(t)
        \/ ToDevice(t)
        \/ Transcribe(t, {ScenarioWords})
        \/ CheckDiar(t)
        \/ CallDiar(t, {ScenarioOneSpeaker, ScenarioTwoSpeakers})
        \/ FinallyExists(t)
        \/ FinallyRemove(t)

SpecSequential == Init /\ [][NextSequential]_vars

\* -------------------------------------------------------------- properties

\* The return statement of lines 147-151 has built the response of thread t
\* from the diarization branch (lines 98-134); the finally clause has not
\* finished, so the locals of the call are still there to compare with.
Diarized(t) == pc[t] \in {"finally", "remove"} /\ hist[t].diarized

\* The same for the branch without diarization (lines 136-144).
Plain(t) ==
    pc[t] \in {"finally", "remove"} /\ resp[t].status = 200 /\ ~hist[t].diarized

\* Word i lies inside track j, both bounds inclusive.
Inside(words, tracks, i, j) ==
    words[i].start >= tracks[j].start /\ words[i].end <= tracks[j].end

\* Word i and track j overlap in more than a point.
Overlaps(words, tracks, i, j) ==
    words[i].start < tracks[j].end /\ words[i].end > tracks[j].start

\* The words of a segment, joined by single spaces behind the label.
Line(chunks, seg) ==
    Chars(seg.speaker) \o <<":", " ">>
        \o Join(<<" ">>, [m \in 1..Len(seg.members) |-> Chars(chunks[seg.members[m]].text)])

\* The segment (position in segs) that holds chunk k; 0 if none does.
SegmentOf(segs, k) ==
    IF \E s \in 1..Len(segs) : \E m \in 1..Len(segs[s].members) : segs[s].members[m] = k
    THEN CHOOSE s \in 1..Len(segs) :
            \E m \in 1..Len(segs[s].members) : segs[s].members[m] = k
    ELSE 0

\* C1: with diarization on, a word is in the per-word list iff some track
\* contains it (start >= track start and end <= track end); every entry is a
\* copy of a word with the label of a track that contains that word; the
\* transcript lines hold only entries of the list; and with no track the
\* list and the transcript are empty.
C1_FullContainment ==
    \A t \in Threads :
        Diarized(t) =>
            LET words == all_whisper_words[t]
                tracks == diarization_results[t]
                chunks == resp[t].chunks
                em == aligned[t].emitted
                segs == aligned[t].segments
            IN  /\ Len(em) = Len(chunks)
                /\ \A i \in 1..Len(words) :
                       (\E k \in 1..Len(chunks) : em[k].word_idx = i)
                       <=> (\E j \in 1..Len(tracks) : Inside(words, tracks, i, j))
                /\ \A k \in 1..Len(chunks) :
                       /\ chunks[k].text = words[em[k].word_idx].text
                       /\ chunks[k].timestamp =
                              <<words[em[k].word_idx].start, words[em[k].word_idx].end>>
                       /\ chunks[k].score = words[em[k].word_idx].probability
                       /\ \E j \in 1..Len(tracks) :
                              /\ Inside(words, tracks, em[k].word_idx, j)
                              /\ chunks[k].speaker = tracks[j].label
                /\ \A s \in 1..Len(segs) : \A m \in 1..Len(segs[s].members) :
                       segs[s].members[m] \in 1..Len(chunks)
                /\ (chunks = <<>>) => (resp[t].text = <<>>)
                /\ (tracks = <<>>) => (chunks = <<>> /\ resp[t].text = <<>>)

\* A diarized response with one word kept and another dropped although a
\* track overlaps it.
C1_Witness ==
    \E t \in Threads :
        /\ Diarized(t)
        /\ resp[t].chunks # <<>>
        /\ \E i \in 1..Len(all_whisper_words[t]) :
               /\ \A k \in 1..Len(resp[t].chunks) : aligned[t].emitted[k].word_idx # i
               /\ \E j \in 1..Len(diarization_results[t]) :
                      Overlaps(all_whisper_words[t], diarization_results[t], i, j)

\* C2: with diarization on, each word of the word timeline occurs at most
\* once in the per-word list (and so at most once in the transcript).
C2_AtMostOnce ==
    \A t \in Threads :
        Diarized(t) =>
            \A k1, k2 \in 1..Len(aligned[t].emitted) :
                aligned[t].emitted[k1].word_idx = aligned[t].emitted[k2].word_idx
                    => k1 = k2

\* C3: with diarization on, the per-word list is in the order of the word
\* timeline: an earlier entry comes from an earlier-or-equal word.
C3_OriginalOrder ==
    \A t \in Threads :
        Diarized(t) =>
            \A k1, k2 \in 1..Len(aligned[t].emitted) :
                k1 < k2 =>
                    aligned[t].emitted[k1].word_idx <= aligned[t].emitted[k2].word_idx

\* C4: with diarization off, the transcript is the word texts in order,
\* joined by single spaces and trimmed, and the per-word list has one entry
\* per word, in order, with text, start, end and probability copied and no
\* speaker.
C4_PlainTranscript ==
    \A t \in Threads :
        Plain(t) =>
            LET words == all_whisper_words[t]
                chunks == resp[t].chunks
            IN  /\ resp[t].text =
                       Strip(Join(<<" ">>, [i \in 1..Len(words) |-> Chars(words[i].text)]))
                /\ Len(chunks) = Len(words)
                /\ \A i \in 1..Len(words) :
                       /\ chunks[i].text = words[i].text
                       /\ chunks[i].timestamp = <<words[i].start, words[i].end>>
                       /\ chunks[i].score = words[i].probability
                       /\ chunks[i].speaker = None

\* A response without diarization for two words.
C4_Witness ==
    \E t \in Threads :
        /\ Plain(t)
        /\ ~req[t].diarize
        /\ Len(all_whisper_words[t]) = 2
        /\ Len(resp[t].text) = 3

\* C5 as claimed: every word of a line carries the line's label, consecutive
\* entries with one label are on one line, and adjacent lines never carry
\* the same label.
C5_MaximalRunsOfWords ==
    \A t \in Threads :
        Diarized(t) =>
            LET chunks == resp[t].chunks
                segs == aligned[t].segments
            IN  /\ \A s \in 1..Len(segs) : \A m \in 1..Len(segs[s].members) :
                       chunks[segs[s].members[m]].speaker = segs[s].speaker
                /\ \A k \in 1..(Len(chunks) - 1) :
                       chunks[k].speaker = chunks[k + 1].speaker
                           => SegmentOf(segs, k) = SegmentOf(segs, k + 1)
                /\ \A s \in 1..(Len(segs) - 1) : segs[s].speaker # segs[s + 1].speaker

\* C5 as amended: the lines are the entries of the per-word list cut into
\* runs, in order, every word of a line carries the line's label, and two
\* consecutive entries are on one line iff every track from the one that
\* gave the first to the one that gave the second carries the same label
\* (so a track of another speaker between them cuts the line even when it
\* holds no word).
C5_MaximalRunsOfTracks ==
    \A t \in Threads :
        Diarized(t) =>
            LET chunks == resp[t].chunks
                tracks == diarization_results[t]
                em == aligned[t].emitted
                segs == aligned[t].segments
            IN  /\ \A s \in 1..Len(segs) : \A m \in 1..Len(segs[s].members) :
                       chunks[segs[s].members[m]].speaker = segs[s].speaker
                /\ \A k \in 1..Len(chunks) : SegmentOf(segs, k) # 0
                /\ \A s \in 1..Len(segs) :
                       /\ segs[s].members # <<>>
                       /\ \A m \in 1..(Len(segs[s].members) - 1) :
                              segs[s].members[m + 1] = segs[s].members[m] + 1
                       /\ s < Len(segs) =>
                              segs[s + 1].members[1] =
                                  segs[s].members[Len(segs[s].members)] + 1
                /\ \A k \in 1..(Len(chunks) - 1) :
                       (SegmentOf(segs, k) = SegmentOf(segs, k + 1))
                       <=> (\A j \in em[k].track..em[k + 1].track :
                                tracks[j].label = tracks[em[k].track].label)

\* Tracks that do not overlap, and two adjacent lines of one speaker, cut
\* by a track of another speaker that holds no word.
C5_Witness ==
    \E t \in Threads :
        /\ Diarized(t)
        /\ \A j \in 1..(Len(diarization_results[t]) - 1) :
               diarization_results[t][j].end <= diarization_results[t][j + 1].start
        /\ \E s \in 1..(Len(aligned[t].segments) - 1) :
               aligned[t].segments[s].speaker = aligned[t].segments[s + 1].speaker

TwoSpeakersText ==
    Chars("SPEAKER_00") \o <<":", " ", "a", "\n">> \o Chars("SPEAKER_01") \o <<":", " ", "b">>

OneSpeakerText == Chars("SPEAKER_00") \o <<":", " ", "a", " ", "b">>

IsScenario(t, tracks) ==
    /\ Diarized(t)
    /\ all_whisper_words[t] = ScenarioWords
    /\ diarization_results[t] = tracks

\* C6 as claimed: every line of the returned transcript, the last one too,
\* ends with a newline; the two scenarios return "SPEAKER_00: a\nSPEAKER_01:
\* b\n" and "SPEAKER_00: a b\n".
C6_EveryLineTerminated ==
    \A t \in Threads :
        /\ Diarized(t) /\ aligned[t].segments # <<>> => EndsWith(resp[t].text, "\n")
        /\ IsScenario(t, ScenarioTwoSpeakers) => resp[t].text = TwoSpeakersText \o <<"\n">>
        /\ IsScenario(t, ScenarioOneSpeaker) => resp[t].text = OneSpeakerText \o <<"\n">>

\* C6 as amended: the returned transcript is the lines "<label>: <words
\* joined by single spaces>" joined by single newlines, with no newline
\* after the last line; the two scenarios return "SPEAKER_00: a\nSPEAKER_01:
\* b" and "SPEAKER_00: a b".
C6_LinesSeparated ==
    \A t \in Threads :
        /\ Diarized(t) =>
               resp[t].text =
                   Join(<<"\n">>, [s \in 1..Len(aligned[t].segments) |->
                                      Line(resp[t].chunks, aligned[t].segments[s])])
        /\ IsScenario(t, ScenarioTwoSpeakers) => resp[t].text = TwoSpeakersText
        /\ IsScenario(t, ScenarioOneSpeaker) => resp[t].text = OneSpeakerText

\* The response to the scenario with two speakers.
C6_Witness == \E t \in Threads : IsScenario(t, ScenarioTwoSpeakers)

\* C7: a request whose model load failed ends with an error response, and
\* no request diarizes with a pipeline whose load failed.
C7_FailedHandleNotReused ==
    \A t \in Threads :
        /\ (pc[t] = "done" /\ hist[t].load_failed) => resp[t].status = 500
        /\ hist[t].used \notin failed_handles

\* C7 when no two requests overlap: a request whose model load failed
\* finishes with an error response and with the global unset; no request
\* diarizes with a pipeline whose load failed; and as long as no load has
\* succeeded, every diarize=true request that finds the token set attempts
\* the load.
C7_WithoutOverlap ==
    [][\A t \in Threads :
          /\ (pc[t] # "done" /\ pc'[t] = "done" /\ hist[t].load_failed)
                 => (resp'[t].status = 500 /\ diarization_pipeline' = 0)
          /\ hist'[t].used \notin failed_handles'
          /\ (/\ pc[t] = "check_handle" /\ pc'[t] # "check_handle"
              /\ req[t].diarize /\ hf_token /\ loaded_ok = {})
                 => pc'[t] = "from_pretrained"]_vars

\* C8: at most one load succeeds in the life of the process, and a global
\* that holds a loaded pipeline is never assigned again.
C8_LoadedAtMostOnce ==
    [][/\ Cardinality(loaded_ok') <= 1
       /\ (diarization_pipeline # 0 /\ loaded_ok # {})
              => diarization_pipeline' = diarization_pipeline]_vars

\* C9: no temporary file outlives the request that saved it: a file on disk
\* holds the upload of a request that is still being handled; and a request
\* rejected with 400 has saved none.
C9_TempFileReleased ==
    /\ \A p \in Paths :
           fs[p] # 0 =>
               \E t \in Threads : id[t] = fs[p] /\ pc[t] \notin {"idle", "done"}
    /\ \A t \in Threads :
           pc[t] = "done" /\ resp[t].status = 400 => ~hist[t].saved

\* Both threads have answered requests that saved their upload, one with
\* 200 and one with 500 after a failed model load, and nothing is on disk.
C9_Witness ==
    /\ \E t, u \in Threads :
           /\ pc[t] = "done" /\ hist[t].saved /\ resp[t].status = 200
           /\ pc[u] = "done" /\ hist[u].saved /\ resp[u].status = 500
           /\ hist[u].load_failed
    /\ \A p \in Paths : fs[p] = 0

\* C10: from the save to the request's own cleanup, the file at the
\* request's path exists and holds that request's upload.
C10_OwnFileIntact ==
    \A t \in Threads :
        (/\ hist[t].saved
         /\ pc[t] \in {"check_handle", "from_pretrained", "to_device", "transcribe",
                       "check_diar", "call_diar", "finally", "remove"})
            => fs[audio_path[t]] = id[t]

====
